---- MODULE Spec2Model ----
(***************************************************************************)
(* State-machine model of the virtual RISC-V JTAG-DTM (src/src/jtag_vdtm.c) *)
(* and of the SWD-DMI bridge (src/src/swd_dmi.c).                           *)
(*                                                                         *)
(* Machine words (uint32_t, uint64_t) are modelled as the set of their     *)
(* bit positions that hold 1, so that 42-bit and 32-bit values keep their  *)
(* exact width: shifting, masking and truncation are set operations.       *)
(***************************************************************************)
EXTENDS Integers, Sequences, FiniteSets, TLC

VARIABLES
    \* struct jtag_vdtm
    ir, shifter, idcode, tap_state, dmi_rdata,
    write_callback, read_callback, tck, tms, tdi, tdo,
    \* observation of the JTAG pins and callbacks (history, not program state)
    prev_state,   \* TAP state in which the last rising edge was processed
    ones,         \* consecutive rising edges with TMS=1, saturating at 5
    fresh,        \* a TAP reset was driven and no IR scan was started since
    nshift,       \* shift edges since the last CAPTURE-xR edge
    tdi_hist,     \* the last W_IR TDI bits sampled by shift edges since capture
    cb_log,       \* callbacks invoked by the last rising edge
    last_rd,      \* value the read callback returned last, or NoRead
    host_word,    \* payload the host scans into a wide data register
    \* struct swd_dmi
    addr_cache, addr_cache_valid, targetsel, apsel,
    \* the SWD pins: the level of SWCLK, the output enable of SWDIO
    swclk, swdo_en,
    \* the target's DP SELECT and Mem-AP TAR registers
    tgt_select, tgt_tar,
    \* observation of the SWD bridge (history, not program state)
    swd_log,      \* SWD traffic of the last bridge call, in order
    acc_hist,     \* addresses of the DMI accesses since the last connect call
    tar_writes,   \* TAR writes emitted since the last connect call
    drw_writes,   \* DRW writes emitted since the last connect call
    wr_calls,     \* swd_dmi_write calls since the last connect call
    rc,           \* what the last swd_dmi_connect returned
    rd_out        \* what the last swd_dmi_read stored through its data pointer

dtm_vars == <<ir, shifter, idcode, tap_state, dmi_rdata,
              write_callback, read_callback, tck, tms, tdi, tdo>>
obs_vars == <<prev_state, ones, fresh, nshift, tdi_hist, cb_log, last_rd, host_word>>
swd_vars == <<addr_cache, addr_cache_valid, targetsel, apsel, swclk, swdo_en,
              tgt_select, tgt_tar,
              swd_log, acc_hist, tar_writes, drw_writes, wr_calls, rc, rd_out>>
vars == <<dtm_vars, obs_vars, swd_vars>>

----------------------------------------------------------------------------
\* Machine words as sets of bit positions

\* the word holding the number n, 0 <= n < 2^31
FromInt(n) == {i \in 0..30 : (n \div (2^i)) % 2 = 1}

\* word << k, truncated to width bits
Shl(w, k, width) == {i + k : i \in w} \cap (0..(width - 1))

\* word >> 1
Shr1(w) == {i - 1 : i \in w \ {0}}

\* word >> k
Shr(w, k) == {i - k : i \in {j \in w : j >= k}}

\* word & (2^width - 1)
Trunc(w, width) == w \cap (0..(width - 1))

\* the number a word of fewer than 31 bits holds
RECURSIVE ToInt(_)
ToInt(w) == IF w = {} THEN 0
            ELSE LET i == CHOOSE j \in w : TRUE IN 2^i + ToInt(w \ {i})

\* a 32-bit word from its two 16-bit halves
Word32(hi, lo) == FromInt(lo) \cup Shl(FromInt(hi), 16, 32)

----------------------------------------------------------------------------
\* jtag_tap_state_t
S_RESET == 0
S_RUN_IDLE == 1
S_SELECT_DR == 2
S_CAPTURE_DR == 3
S_SHIFT_DR == 4
S_EXIT1_DR == 5
S_PAUSE_DR == 6
S_EXIT2_DR == 7
S_UPDATE_DR == 8
S_SELECT_IR == 9
S_CAPTURE_IR == 10
S_SHIFT_IR == 11
S_EXIT1_IR == 12
S_PAUSE_IR == 13
S_EXIT2_IR == 14
S_UPDATE_IR == 15

TapStates == S_RESET..S_UPDATE_IR

W_IR == 5
IR_BYPASS == 0
IR_IDCODE == 1
IR_DTMCS == 16
IR_DMI == 17

ABITS == 8
W_DMI == ABITS + 32 + 2

DMI_OP_WRITE == 2
DMI_OP_READ == 1
DMI_OP_NONE == 0

DTMCS_VERSION == 1
DTMCS_ABITS == ABITS
DTMCS_IDLE_HINT == 0

\* ap_dp_t
DP == 0
AP == 1

\* swd_status_t
OK == 1
WAIT == 2
FAULT == 4
DISCONNECTED == 7

PWRUP_ACK_TIMEOUT == 10000

DP_REG_DPIDR == 0
DP_REG_ABORT == 0
DP_REG_CTRL_STAT == 1
DP_REG_SELECT == 2
DP_REG_RDBUF == 3
DP_REG_TARGETSEL == 3

AP_REG_CSW == 0
AP_REG_TAR == 1
AP_REG_DRW == 3
AP_REG_IDR == 3

\* DP_CTRL_STAT_CSYSPWRUPACK | DP_CTRL_STAT_CDBGPWRUPACK
pwr_ack_bits == {31, 29}
\* DP_CTRL_STAT_CSYSPWRUPREQ | DP_CTRL_STAT_CDBGPWRUPREQ
pwr_req_bits == {30, 28}
\* DP_CTRL_STAT_ORUNDETECT
orundetect_bit == {0}

\* AP_BANK_IDR, AP_BANK_CSW
AP_BANK_IDR == FromInt(240)
AP_BANK_CSW == {}

\* APIDR_EXPECTED_MASK 0x1e00f, APIDR_EXPECTED_DATA 0x10002
APIDR_EXPECTED_MASK == {16, 15, 14, 13, 3, 2, 1, 0}
APIDR_EXPECTED_DATA == {16, 1}

\* ACK values the target answers with
AckVals == {OK, WAIT, FAULT, DISCONNECTED}

----------------------------------------------------------------------------
\* Bounds of the exploration

\* shift edges the host drives within one IR scan
MaxIrShift == 6
\* shift edges the host drives within one scan of a 1-bit data register
MaxBypassShift == 3
\* shift edges the host drives within one scan of a 32- or 42-bit data register
MaxDrShift == 42

\* IDCODE values given to jtag_vdtm_create: 0xDEADBEEF
Idcodes == {Word32(57005, 48879)}

\* values the read callback delivers: 0x12345678, 0xC0000003
RdataVals == {Word32(4660, 22136), Word32(49152, 3)}

\* DMI payloads the host scans in, LSB first:
\*   (0x10 << 34) | (1 << 2) | 2   write 0x00000001 to address 0x10
\*   (0x11 << 34) | 1              read address 0x11
HostWords == {{38, 2, 1}, {38, 34, 0}}

\* instructions the host of the DMI scenario loads
HostIrs == {IR_DTMCS, IR_DMI}

\* DMI accesses the caller makes between two connect calls
MaxAccesses == 4

\* CTRL/STAT reads after which a target shows both power-up ACK bits
PollCounts == {1, 2}

\* CTRL/STAT reads that come with the poll loop's last iteration or after it
LatePolls == {PWRUP_ACK_TIMEOUT, PWRUP_ACK_TIMEOUT + 1}

\* CTRL/STAT values of a target that has not powered up yet: the request
\* bits alone, or with CDBGPWRUPACK
PendingVals == {{30, 28, 0}, {30, 29, 28, 0}}

\* DPIDR of the target: 0x0BC12477
DpidrVal == Word32(3009, 9335)

\* AP IDR values: 0x54770002 (an APB Mem-AP), 0x04770031 (an AHB Mem-AP),
\* 0x00010012 (APB class and type, other revision and variant), 0x54772002 (one
\* more class bit)
IdrVals == {Word32(21623, 2), Word32(1143, 49), Word32(1, 18), Word32(21623, 8194)}

\* construction parameters of the bridge in the connect scenario:
\* <<0, 0>> (no TARGETSEL) and <<0x01002927, 1>>
ConnectConfigs == {<<{}, 0>>, <<Word32(256, 10535), 1>>}

\* construction parameters of the bridge, <<targetsel, apsel>>: <<0x01002927, 1>>
BridgeConfigs == {<<Word32(256, 10535), 1>>}

\* DMI addresses passed to swd_dmi_read / swd_dmi_write: 0x4, 0x5, 0x40000004
DmiAddrs == {FromInt(4), FromInt(5), {30, 2}}

\* data word written, and read back from the target: 0x00400482
DataVals == {Word32(64, 1154)}

\* words on the wire: 0, 0x01002927, 0x12345678 (odd parity), 0xFFFFFFFF
WireWords == {{}, Word32(256, 10535), Word32(4660, 22136), 0..31}

\* what a posted AP read returns first: 0xFFFFFFFF
StaleVal == 0..31

\* ACKs to the TAR write and the DRW write of a DMI write: all accepted, the
\* TAR write refused, or the DRW write refused
WriteAcks == {<<OK, OK>>, <<WAIT, OK>>, <<DISCONNECTED, OK>>, <<OK, FAULT>>}

\* ACKs to the TAR write, the DRW read and the RDBUF read of a DMI read
ReadAcks == {<<OK, OK, OK>>, <<FAULT, OK, OK>>, <<OK, WAIT, OK>>, <<OK, OK, DISCONNECTED>>}

\* ACKs to the SELECT write and the IDR read of the AP probe, which the code
\* does not check
ProbeAcks == {<<OK, OK>>, <<WAIT, OK>>, <<OK, FAULT>>, <<DISCONNECTED, DISCONNECTED>>}

\* no rising edge processed yet; nothing read yet
NoState == S_UPDATE_IR + 1
NoRead == {-1}

----------------------------------------------------------------------------
\* The TAP controller and the DTM core

\* mutant: TMS=1 in SELECT-IR goes back to SELECT-DR instead of RESET
step_tap_fsm_noreset(state, t) ==
    CASE state = S_RESET      -> IF t THEN S_RESET     ELSE S_RUN_IDLE
      [] state = S_RUN_IDLE   -> IF t THEN S_SELECT_DR ELSE S_RUN_IDLE
      [] state = S_SELECT_DR  -> IF t THEN S_SELECT_IR ELSE S_CAPTURE_DR
      [] state = S_CAPTURE_DR -> IF t THEN S_EXIT1_DR  ELSE S_SHIFT_DR
      [] state = S_SHIFT_DR   -> IF t THEN S_EXIT1_DR  ELSE S_SHIFT_DR
      [] state = S_EXIT1_DR   -> IF t THEN S_UPDATE_DR ELSE S_PAUSE_DR
      [] state = S_PAUSE_DR   -> IF t THEN S_EXIT2_DR  ELSE S_PAUSE_DR
      [] state = S_EXIT2_DR   -> IF t THEN S_UPDATE_DR ELSE S_SHIFT_DR
      [] state = S_UPDATE_DR  -> IF t THEN S_SELECT_DR ELSE S_RUN_IDLE
      [] state = S_SELECT_IR  -> IF t THEN S_SELECT_DR ELSE S_CAPTURE_IR
      [] state = S_CAPTURE_IR -> IF t THEN S_EXIT1_IR  ELSE S_SHIFT_IR
      [] state = S_SHIFT_IR   -> IF t THEN S_EXIT1_IR  ELSE S_SHIFT_IR
      [] state = S_EXIT1_IR   -> IF t THEN S_UPDATE_IR ELSE S_PAUSE_IR
      [] state = S_PAUSE_IR   -> IF t THEN S_EXIT2_IR  ELSE S_PAUSE_IR
      [] state = S_EXIT2_IR   -> IF t THEN S_UPDATE_IR ELSE S_SHIFT_IR
      [] state = S_UPDATE_IR  -> IF t THEN S_SELECT_DR ELSE S_RUN_IDLE
      [] OTHER                -> S_RESET

step_tap_fsm(state, t) ==
    CASE state = S_RESET      -> IF t THEN S_RESET     ELSE S_RUN_IDLE
      [] state = S_RUN_IDLE   -> IF t THEN S_SELECT_DR ELSE S_RUN_IDLE
      [] state = S_SELECT_DR  -> IF t THEN S_SELECT_IR ELSE S_CAPTURE_DR
      [] state = S_CAPTURE_DR -> IF t THEN S_EXIT1_DR  ELSE S_SHIFT_DR
      [] state = S_SHIFT_DR   -> IF t THEN S_EXIT1_DR  ELSE S_SHIFT_DR
      [] state = S_EXIT1_DR   -> IF t THEN S_UPDATE_DR ELSE S_PAUSE_DR
      [] state = S_PAUSE_DR   -> IF t THEN S_EXIT2_DR  ELSE S_PAUSE_DR
      [] state = S_EXIT2_DR   -> IF t THEN S_UPDATE_DR ELSE S_SHIFT_DR
      [] state = S_UPDATE_DR  -> IF t THEN S_SELECT_DR ELSE S_RUN_IDLE
      [] state = S_SELECT_IR  -> IF t THEN S_RESET     ELSE S_CAPTURE_IR
      [] state = S_CAPTURE_IR -> IF t THEN S_EXIT1_IR  ELSE S_SHIFT_IR
      [] state = S_SHIFT_IR   -> IF t THEN S_EXIT1_IR  ELSE S_SHIFT_IR
      [] state = S_EXIT1_IR   -> IF t THEN S_UPDATE_IR ELSE S_PAUSE_IR
      [] state = S_PAUSE_IR   -> IF t THEN S_EXIT2_IR  ELSE S_PAUSE_IR
      [] state = S_EXIT2_IR   -> IF t THEN S_UPDATE_IR ELSE S_SHIFT_IR
      [] state = S_UPDATE_IR  -> IF t THEN S_SELECT_DR ELSE S_RUN_IDLE
      [] OTHER                -> S_RESET

\* mutant: an unlisted instruction selects a 2-bit register
dr_len_two(x) ==
    CASE x = IR_DTMCS  -> 32
      [] x = IR_DMI    -> W_DMI
      [] x = IR_IDCODE -> 32
      [] OTHER         -> 2

dr_len(x) ==
    CASE x = IR_DTMCS  -> 32
      [] x = IR_DMI    -> W_DMI
      [] x = IR_IDCODE -> 32
      [] OTHER         -> 1

\* get_next_tdo without the test of the TAP state
get_next_tdo_any(state, sh) == 0 \in sh

\* evaluated at the falling edge, on the TAP state the last rising edge reached
get_next_tdo(state, sh) ==
    IF state = S_SHIFT_DR \/ state = S_SHIFT_IR THEN 0 \in sh ELSE FALSE

\* mutant: the read data is not moved above the two status bits
handle_dmi_read_noshift(rdata) == Trunc(rdata, 64)

\* (uint64_t)dtm->dmi_rdata << 2
handle_dmi_read(rdata) == Shl(rdata, 2, 64)

\* DTMCS_VERSION << 0 | DTMCS_ABITS << 4 | DTMCS_IDLE_HINT << 12
handle_dtmcs_read ==
    Shl(FromInt(DTMCS_VERSION), 0, 64) \cup Shl(FromInt(DTMCS_ABITS), 4, 64)
        \cup Shl(FromInt(DTMCS_IDLE_HINT), 12, 64)

\* mutant: IDCODE is captured one bit too low
capture_dr_idshift(cur_ir, sh, idc, rdata) ==
    CASE cur_ir = IR_BYPASS -> {}
      [] cur_ir = IR_IDCODE -> Shr1(idc)
      [] cur_ir = IR_DTMCS  -> handle_dtmcs_read
      [] cur_ir = IR_DMI    -> handle_dmi_read(rdata)
      [] OTHER              -> sh

\* case S_CAPTURE_DR: an unlisted instruction leaves the shifter as it is
capture_dr(cur_ir, sh, idc, rdata) ==
    CASE cur_ir = IR_BYPASS -> {}
      [] cur_ir = IR_IDCODE -> idc
      [] cur_ir = IR_DTMCS  -> handle_dtmcs_read
      [] cur_ir = IR_DMI    -> handle_dmi_read(rdata)
      [] OTHER              -> sh

\* case S_SHIFT_DR
shift_dr(cur_ir, sh, t) ==
    Trunc(Shr1(sh) \cup (IF t THEN {dr_len(cur_ir) - 1} ELSE {}), 64)

\* mutant: TDI enters at bit W_IR, one position too high
shift_ir_wide(sh, t) ==
    Trunc(Shr1(sh) \cup (IF t THEN {W_IR} ELSE {}), 64)

\* case S_SHIFT_IR
shift_ir(sh, t) ==
    Trunc(Shr1(sh) \cup (IF t THEN {W_IR - 1} ELSE {}), 64)

\* case S_UPDATE_IR: the 64-bit shifter is assigned to the uint8_t ir
update_ir(sh) == ToInt(Trunc(sh, 8))

\* mutant: the address is taken from above the data only, ignoring the op bits
dmi_addr_low(sh) == ToInt(Trunc(Shr(sh, 32), ABITS))

\* the fields handle_dmi_write takes out of the shifter
dmi_op(sh) == ToInt(Trunc(sh, 2))

dmi_wdata(sh) == Trunc(Shr(sh, 2), 32)

dmi_addr(sh) == ToInt(Trunc(Shr(sh, 34), ABITS))

\* handle_dmi_write taking every op with bit 1 set for a write
handle_dmi_write_bit1(sh, wcb, rcb, v) ==
    IF 1 \in sh /\ wcb
    THEN <<[cb |-> "write", addr |-> dmi_addr(sh), data |-> dmi_wdata(sh)]>>
    ELSE IF dmi_op(sh) = DMI_OP_READ /\ rcb
    THEN <<[cb |-> "read", addr |-> dmi_addr(sh), data |-> v]>>
    ELSE <<>>

\* handle_dmi_write: the callbacks it invokes, in order; a read delivers v
handle_dmi_write(sh, wcb, rcb, v) ==
    IF dmi_op(sh) = DMI_OP_WRITE /\ wcb
    THEN <<[cb |-> "write", addr |-> dmi_addr(sh), data |-> dmi_wdata(sh)]>>
    ELSE IF dmi_op(sh) = DMI_OP_READ /\ rcb
    THEN <<[cb |-> "read", addr |-> dmi_addr(sh), data |-> v]>>
    ELSE <<>>

\* handle_dtmcs_write handing the 32 bits to the write callback
handle_dtmcs_write_through(sh) == <<[cb |-> "write", addr |-> 0, data |-> Trunc(sh, 32)]>>

\* handle_dtmcs_write discards the register: no state changes, no callback
handle_dtmcs_write(sh) == <<>>

\* case S_UPDATE_DR: the callbacks the edge invokes
update_dr(cur_ir, sh, wcb, rcb, v) ==
    CASE cur_ir = IR_DTMCS -> handle_dtmcs_write(sh)
      [] cur_ir = IR_DMI   -> handle_dmi_write(sh, wcb, rcb, v)
      [] OTHER             -> <<>>

\* mutant: the RESET state leaves IR alone
next_ir_keep(st, cur_ir, sh) ==
    CASE st = S_UPDATE_IR -> update_ir(sh)
      [] OTHER            -> cur_ir

\* dtm->ir after the effects of a rising edge processed in TAP state st
next_ir(st, cur_ir, sh) ==
    CASE st = S_RESET     -> IR_IDCODE
      [] st = S_UPDATE_IR -> update_ir(sh)
      [] OTHER            -> cur_ir

\* the effects on the shifter with CAPTURE-IR leaving it as it is
next_shifter_nocapture(st, cur_ir, sh, idc, rdata, t) ==
    CASE st = S_SHIFT_IR   -> shift_ir(sh, t)
      [] st = S_CAPTURE_DR -> capture_dr(cur_ir, sh, idc, rdata)
      [] st = S_SHIFT_DR   -> shift_dr(cur_ir, sh, t)
      [] OTHER             -> sh

\* dtm->shifter after the effects of a rising edge processed in TAP state st
next_shifter(st, cur_ir, sh, idc, rdata, t) ==
    CASE st = S_CAPTURE_IR -> FromInt(cur_ir)
      [] st = S_SHIFT_IR   -> shift_ir(sh, t)
      [] st = S_CAPTURE_DR -> capture_dr(cur_ir, sh, idc, rdata)
      [] st = S_SHIFT_DR   -> shift_dr(cur_ir, sh, t)
      [] OTHER             -> sh

\* callbacks a rising edge processed in TAP state st invokes
next_calls(st, cur_ir, sh, wcb, rcb, v) ==
    IF st = S_UPDATE_DR THEN update_dr(cur_ir, sh, wcb, rcb, v) ELSE <<>>

\* dtm->dmi_rdata after the callbacks: only the read callback writes it
next_rdata(calls, rdata) ==
    IF calls # <<>> /\ calls[1].cb = "read" THEN calls[1].data ELSE rdata

\* one more TMS=1 edge counted, five being enough for a TAP reset
Saturate(n) == IF n < 5 THEN n + 1 ELSE 5

LastN(s, n) == IF Len(s) <= n THEN s ELSE SubSeq(s, Len(s) - n + 1, Len(s))

\* what an observer of the pins and callbacks records at a rising edge
Observe(calls) ==
    /\ prev_state' = tap_state
    /\ ones' = IF tms THEN Saturate(ones) ELSE 0
    /\ fresh' = IF tms /\ Saturate(ones) = 5 THEN TRUE
                ELSE IF tap_state' = S_CAPTURE_IR THEN FALSE ELSE fresh
    /\ nshift' = IF tap_state \in {S_SHIFT_DR, S_SHIFT_IR} THEN nshift + 1
                 ELSE IF tap_state \in {S_EXIT1_DR, S_PAUSE_DR, S_EXIT2_DR, S_UPDATE_DR,
                                        S_EXIT1_IR, S_PAUSE_IR, S_EXIT2_IR, S_UPDATE_IR}
                 THEN nshift ELSE 0
    /\ tdi_hist' = IF tap_state \in {S_SHIFT_DR, S_SHIFT_IR}
                   THEN LastN(Append(tdi_hist, tdi), W_IR)
                   ELSE IF tap_state \in {S_EXIT1_DR, S_PAUSE_DR, S_EXIT2_DR, S_UPDATE_DR,
                                          S_EXIT1_IR, S_PAUSE_IR, S_EXIT2_IR, S_UPDATE_IR}
                   THEN tdi_hist ELSE <<>>
    /\ cb_log' = calls
    /\ last_rd' = IF calls # <<>> /\ calls[1].cb = "read" THEN calls[1].data ELSE last_rd
    /\ host_word' = IF tap_state = S_UPDATE_DR THEN {} ELSE host_word

\* tck_posedge: the effects of the current TAP state, then the FSM step
tck_posedge(v) ==
    LET calls == next_calls(tap_state, ir, shifter, write_callback, read_callback, v) IN
    /\ ir' = next_ir(tap_state, ir, shifter)
    /\ shifter' = next_shifter(tap_state, ir, shifter, idcode, dmi_rdata, tdi)
    /\ dmi_rdata' = next_rdata(calls, dmi_rdata)
    /\ tap_state' = step_tap_fsm(tap_state, tms)
    /\ Observe(calls)

jtag_vdtm_set_tms(b) ==
    /\ tms' = b
    /\ UNCHANGED <<ir, shifter, idcode, tap_state, dmi_rdata,
                   write_callback, read_callback, tck, tdi, tdo, obs_vars, swd_vars>>

jtag_vdtm_set_tdi(b) ==
    /\ tdi' = b
    /\ UNCHANGED <<ir, shifter, idcode, tap_state, dmi_rdata,
                   write_callback, read_callback, tck, tms, tdo, obs_vars, swd_vars>>

\* jtag_vdtm_set_tck sensitive to the level of its argument, not to the edge
jtag_vdtm_set_tck_level(b, v) ==
    /\ IF b
       THEN /\ tck_posedge(v)
            /\ tdo' = tdo
       ELSE IF ~b /\ tck
       THEN /\ tdo' = get_next_tdo(tap_state, shifter)
            /\ UNCHANGED <<ir, shifter, tap_state, dmi_rdata, obs_vars>>
       ELSE UNCHANGED <<ir, shifter, tap_state, dmi_rdata, tdo, obs_vars>>
    /\ tck' = b
    /\ UNCHANGED <<idcode, write_callback, read_callback, tms, tdi, swd_vars>>

jtag_vdtm_set_tck(b, v) ==
    /\ IF b /\ ~tck
       THEN /\ tck_posedge(v)
            /\ tdo' = tdo
       ELSE IF ~b /\ tck
       THEN /\ tdo' = get_next_tdo(tap_state, shifter)
            /\ UNCHANGED <<ir, shifter, tap_state, dmi_rdata, obs_vars>>
       ELSE UNCHANGED <<ir, shifter, tap_state, dmi_rdata, tdo, obs_vars>>
    /\ tck' = b
    /\ UNCHANGED <<idcode, write_callback, read_callback, tms, tdi, swd_vars>>

jtag_vdtm_set_write_callback(cb) ==
    /\ write_callback' = cb
    /\ UNCHANGED <<ir, shifter, idcode, tap_state, dmi_rdata,
                   read_callback, tck, tms, tdi, tdo, obs_vars, swd_vars>>

jtag_vdtm_set_read_callback(cb) ==
    /\ read_callback' = cb
    /\ UNCHANGED <<ir, shifter, idcode, tap_state, dmi_rdata,
                   write_callback, tck, tms, tdi, tdo, obs_vars, swd_vars>>

\* jtag_vdtm_create: malloc, memset to zero, idcode stored
jtag_vdtm_create(idc) ==
    /\ ir = 0
    /\ shifter = {}
    /\ idcode = idc
    /\ tap_state = S_RESET
    /\ dmi_rdata = {}
    /\ write_callback = FALSE
    /\ read_callback = FALSE
    /\ tck = FALSE
    /\ tms = FALSE
    /\ tdi = FALSE
    /\ tdo = FALSE

----------------------------------------------------------------------------
\* The SWD transaction layer, at the level of whole transactions.  The traffic
\* of a call is a sequence of transactions; field n of an entry counts the
\* identical transactions in a row that the entry stands for.

\* put_bits(link_down_up, link_down_up_bits): the fixed link cycling stream
LinkTxn == [n |-> 1, t |-> "LINK", data |-> {}, ap |-> DP, reg |-> 0, ack |-> 0]

\* swd_targetsel: a DP write of register 3 with no ACK phase
swd_targetsel(id) ==
    [n |-> 1, t |-> "TARGETSEL", data |-> id, ap |-> DP, reg |-> DP_REG_TARGETSEL,
     ack |-> 0]

\* swd_read: the transaction on the wire; the target answers ack and data
swd_read(ap_ndp, addr, ack, data) ==
    [n |-> 1, t |-> "R", data |-> data, ap |-> ap_ndp, reg |-> addr % 4, ack |-> ack]

\* swd_write: the transaction on the wire; the target answers ack
swd_write(ap_ndp, addr, data, ack) ==
    [n |-> 1, t |-> "W", data |-> data, ap |-> ap_ndp, reg |-> addr % 4, ack |-> ack]

\* a DP write of register 2 that the target acknowledged with OK
IsSelectSet(x) == x.t = "W" /\ x.ap = DP /\ x.reg = DP_REG_SELECT /\ x.ack = OK

\* an AP write of register 1 that the target acknowledged with OK
IsTarSet(x) == x.t = "W" /\ x.ap = AP /\ x.reg = AP_REG_TAR /\ x.ack = OK

MaxOf(S) == CHOOSE x \in S : \A y \in S : y <= x

\* the target's SELECT after the first n transactions of log
select_after(sel, log, n) ==
    LET W == {i \in 1..n : IsSelectSet(log[i])}
    IN  IF W = {} THEN sel ELSE log[MaxOf(W)].data

\* the target's TAR after log: the data of the last acknowledged TAR write
\* that arrived while SELECT pointed at bank 0 of the AP
tar_after(sel, tar, log) ==
    LET W == {i \in 1..Len(log) :
                 IsTarSet(log[i]) /\ select_after(sel, log, i - 1) \cap (4..7) = {}}
    IN  IF W = {} THEN tar ELSE log[MaxOf(W)].data

\* the target's <<SELECT, TAR>> after a sequence of transactions
target_after(sel, tar, log) ==
    <<select_after(sel, log, Len(log)), tar_after(sel, tar, log)>>

IsTarWrite(x) == x.t = "W" /\ x.ap = AP /\ x.reg = AP_REG_TAR
IsDrwWrite(x) == x.t = "W" /\ x.ap = AP /\ x.reg = AP_REG_DRW
Count(log, P(_)) == Cardinality({i \in 1..Len(log) : P(log[i])})

----------------------------------------------------------------------------
\* The SWD line driver and the bits of a transaction.  What a primitive does
\* to the line is a segment: its kind, its number of SWCLK cycles and the
\* levels of SWDIO in them (driven by put_bits, sampled by get_bits).

\* a ^ b
XorW(a, b) == (a \ b) \cup (b \ a)

\* the word of a number that is 0 or 1
Bit(b) == IF b = 1 THEN {0} ELSE {}

\* addr & 0x3
Low2(addr) == {i \in {0, 1} : (addr \div 2^i) % 2 = 1}

\* swd_header with the parity taken over APnDP and RnW alone
swd_header_parity2(ap_ndp, read_nwrite, addr) ==
    LET a == Low2(addr)
        parity == XorW(Bit(read_nwrite), Bit(ap_ndp))
    IN  ToInt(Trunc({0} \cup Shl(Bit(ap_ndp), 1, 32) \cup Shl(Bit(read_nwrite), 2, 32)
                        \cup Shl(a, 3, 32) \cup Shl(parity, 5, 32) \cup {7}, 8))

\* swd_header with the two address bits in each other's place
swd_header_swapped(ap_ndp, read_nwrite, addr) ==
    LET a == Low2(addr)
        parity == XorW(XorW(XorW(Shr(a, 1), a \cap {0}), Bit(read_nwrite)),
                       Bit(ap_ndp))
    IN  ToInt(Trunc({0} \cup Shl(Bit(ap_ndp), 1, 32) \cup Shl(Bit(read_nwrite), 2, 32)
                        \cup Shl(Shr(a, 1), 3, 32) \cup Shl(a \cap {0}, 4, 32)
                        \cup Shl(parity, 5, 32) \cup {7}, 8))

\* swd_header: the header byte, as a number
swd_header(ap_ndp, read_nwrite, addr) ==
    LET a == Low2(addr)
        parity == XorW(XorW(XorW(Shr(a, 1), a \cap {0}), Bit(read_nwrite)),
                       Bit(ap_ndp))
    IN  ToInt(Trunc({0} \cup Shl(Bit(ap_ndp), 1, 32) \cup Shl(Bit(read_nwrite), 2, 32)
                        \cup Shl(a, 3, 32) \cup Shl(parity, 5, 32) \cup {7}, 8))

\* put_bits sending each byte most significant bit first
put_bits_msb(tx, n_bits) ==
    [n |-> n_bits, op |-> "put",
     bits |-> [i \in 1..n_bits |-> (tx[((i - 1) \div 8) + 1] \div 2^(7 - ((i - 1) % 8))) % 2 = 1]]

\* put_bits: the driver enabled, bit i of the buffer driven in cycle i, each
\* byte LSB first
put_bits(tx, n_bits) ==
    [n |-> n_bits, op |-> "put",
     bits |-> [i \in 1..n_bits |-> (tx[((i - 1) \div 8) + 1] \div 2^((i - 1) % 8)) % 2 = 1]]

\* get_bits: the driver disabled, the levels lv sampled in n_bits cycles
get_bits(lv, n_bits) == [n |-> n_bits, op |-> "get", bits |-> lv]

\* hiz_clocks: the driver disabled, n_bits cycles
hiz_clocks(n_bits) == [n |-> n_bits, op |-> "hiz", bits |-> <<>>]

\* get_bits: the uint8_t shifter after the first i samples of lv
RECURSIVE rx_shifter(_, _)
rx_shifter(lv, i) ==
    IF i = 0 THEN {}
    ELSE Trunc(Shr1(rx_shifter(lv, i - 1)) \cup (IF lv[i] THEN {7} ELSE {}), 8)

\* get_bits: the bytes it stores in rx, a last partial byte moved down
get_bits_rx(lv, n_bits) ==
    [b \in 1..((n_bits + 7) \div 8) |->
        IF 8 * b <= n_bits THEN ToInt(rx_shifter(lv, 8 * b))
        ELSE ToInt(Shr(rx_shifter(lv, n_bits), 8 - (n_bits % 8)))]

\* the swd_status_t that swd_read and swd_write return: the byte get_bits
\* stored for the three ACK cycles
swd_status(levels) == get_bits_rx(levels, 3)[1]

\* txbuf[i] = (data >> i * 8) & 0xff, i = 0..3
txbuf_of(data) ==
    [i \in 1..4 |-> ToInt({k - 8 * (i - 1) : k \in data \cap ((8 * (i - 1))..(8 * i - 1))})]

\* the XOR of the 32 bits of data
parity_of(data) == Cardinality(data \cap (0..31)) % 2

\* the levels a target puts on the line for an ACK and for a data word
AckLevels(ack) == [i \in 1..3 |-> (ack \div 2^(i - 1)) % 2 = 1]
WordLevels(data) == [i \in 1..32 |-> (i - 1) \in data]

\* link_down_up[] and link_down_up_bits
link_down_up ==
    <<255, 255, 255, 255, 255, 255, 255,
      188, 227,
      255,
      146, 243, 9, 98, 149, 45, 133, 134, 233, 175, 221, 227, 162, 14, 188, 25,
      160, 1,
      255, 255, 255, 255, 255, 255, 3>>
link_down_up_bits == Len(link_down_up) * 8 - 4

\* swd_read leaving out the data phase when the ACK is not OK
read_seq_skip(x) ==
    IF x.ack = OK
    THEN <<put_bits(<<swd_header(x.ap, 1, x.reg)>>, 8), hiz_clocks(1),
           get_bits(AckLevels(x.ack), 3), get_bits(WordLevels(x.data), 32),
           get_bits(<<parity_of(x.data) = 1>>, 1), hiz_clocks(1)>>
    ELSE <<put_bits(<<swd_header(x.ap, 1, x.reg)>>, 8), hiz_clocks(1),
           get_bits(AckLevels(x.ack), 3), hiz_clocks(1)>>

\* the segments of swd_read
read_seq(x) ==
    <<put_bits(<<swd_header(x.ap, 1, x.reg)>>, 8), hiz_clocks(1),
      get_bits(AckLevels(x.ack), 3), get_bits(WordLevels(x.data), 32),
      get_bits(<<parity_of(x.data) = 1>>, 1), hiz_clocks(1)>>

\* swd_write ending with a turnaround cycle, as swd_read does
write_seq_released(x) ==
    <<put_bits(<<swd_header(x.ap, 0, x.reg)>>, 8), hiz_clocks(1),
      get_bits(AckLevels(x.ack), 3), hiz_clocks(1),
      put_bits(txbuf_of(x.data), 32), put_bits(<<parity_of(x.data)>>, 1), hiz_clocks(1)>>

\* the segments of swd_write
write_seq(x) ==
    <<put_bits(<<swd_header(x.ap, 0, x.reg)>>, 8), hiz_clocks(1),
      get_bits(AckLevels(x.ack), 3), hiz_clocks(1),
      put_bits(txbuf_of(x.data), 32), put_bits(<<parity_of(x.data)>>, 1)>>

\* swd_targetsel with the ACK phase of swd_write
targetsel_seq_acked(x) ==
    <<put_bits(<<swd_header(DP, 0, 3)>>, 8), hiz_clocks(1),
      get_bits(AckLevels(OK), 3), hiz_clocks(1),
      put_bits(txbuf_of(x.data), 32), put_bits(<<parity_of(x.data)>>, 1)>>

\* the segments of swd_targetsel
targetsel_seq(x) ==
    <<put_bits(<<swd_header(DP, 0, 3)>>, 8), hiz_clocks(5),
      put_bits(txbuf_of(x.data), 32), put_bits(<<parity_of(x.data)>>, 1)>>

\* the segments of put_bits(link_down_up, link_down_up_bits)
link_seq == <<put_bits(link_down_up, link_down_up_bits)>>

\* the segments of a transaction
wire_of(x) ==
    CASE x.t = "R" -> read_seq(x)
      [] x.t = "W" -> write_seq(x)
      [] x.t = "TARGETSEL" -> targetsel_seq(x)
      [] x.t = "LINK" -> link_seq

\* <<SWCLK, SWDIO driver enable>> after the segments segs: every cycle ends
\* with SWCLK low, every primitive begins by setting the driver enable
line_after(segs, clk, en) ==
    <<IF \E i \in 1..Len(segs) : segs[i].n > 0 THEN FALSE ELSE clk,
      IF segs = <<>> THEN en ELSE segs[Len(segs)].op = "put">>

\* the line after the traffic of a call
line_after_log(log, clk, en) ==
    IF log = <<>> THEN <<clk, en>> ELSE line_after(wire_of(log[Len(log)]), clk, en)

----------------------------------------------------------------------------
\* The SWD-DMI bridge

\* swd_dmi_create: malloc, memset to zero, configuration stored
swd_dmi_create(ts, ap) ==
    /\ addr_cache = {}
    /\ addr_cache_valid = FALSE
    /\ targetsel = ts
    /\ apsel = ap

\* dmi->apsel << 24, in 32 bits
apsel_field(ap) == Shl(FromInt(ap), 24, 32)

\* the IDR test with the class field alone: any Mem-AP passes
apidr_ok_class(data) == (data \cap {16, 15, 14, 13}) = {16}

\* (data & APIDR_EXPECTED_MASK) == APIDR_EXPECTED_DATA
apidr_ok(data) == (data \cap APIDR_EXPECTED_MASK) = APIDR_EXPECTED_DATA

\* the CTRL/STAT read number r.polls of the target's answers r decides the
\* poll loop: it is refused (r.stop = 5) or shows both ACK bits (r.powered)
poll_decided(r) == (r.stop = 5 \/ r.powered) /\ r.polls <= PWRUP_ACK_TIMEOUT

\* the poll loop without its bound: it reads until the target decides
poll_reads_unbounded(r) == r.polls

\* the CTRL/STAT reads the poll loop of swd_dmi_connect issues
poll_reads(r) == IF poll_decided(r) THEN r.polls ELSE PWRUP_ACK_TIMEOUT

\* the traffic of swd_dmi_connect and its return value, given the target's
\* answers r: r.stop numbers the checked transaction answered with r.bad
\* (1 DPIDR, 2 ABORT, 3 SELECT, 4 CTRL/STAT, 5 CTRL/STAT read number r.polls,
\* 6 RDBUF, 7 the final SELECT; 0 none), r.powered says whether CTRL/STAT
\* read number r.polls is the first to show both ACK bits (none does otherwise)
connect_run(ts, ap, r) ==
    LET a(j) == IF r.stop = j THEN r.bad ELSE OK
        n == poll_reads(r)
        pre == <<LinkTxn>> \o (IF ts # {} THEN <<swd_targetsel(ts)>> ELSE <<>>)
        t1 == swd_read(DP, DP_REG_DPIDR, a(1), r.dpidr)
        t2 == swd_write(DP, DP_REG_ABORT, FromInt(30), a(2))
        t3 == swd_write(DP, DP_REG_SELECT, {}, a(3))
        t4 == swd_write(DP, DP_REG_CTRL_STAT, pwr_req_bits \cup orundetect_bit, a(4))
        pending == swd_read(DP, DP_REG_CTRL_STAT, OK, r.pending)
        last == swd_read(DP, DP_REG_CTRL_STAT, IF poll_decided(r) THEN a(5) ELSE OK,
                         IF r.powered /\ poll_decided(r)
                         THEN pwr_ack_bits \cup r.pending ELSE r.pending)
        polls == (IF n > 1 THEN <<[pending EXCEPT !.n = n - 1]>> ELSE <<>>) \o <<last>>
        t6 == swd_write(DP, DP_REG_SELECT, AP_BANK_IDR \cup apsel_field(ap), r.u1)
        t7 == swd_read(AP, AP_REG_IDR, r.u2, r.stale)
        t8 == swd_read(DP, DP_REG_RDBUF, a(6), r.idr)
        t9 == swd_write(DP, DP_REG_SELECT, AP_BANK_CSW \cup apsel_field(ap), a(7))
    IN  IF t1.ack # OK THEN [rc |-> -1, log |-> pre \o <<t1>>]
        ELSE IF t2.ack # OK THEN [rc |-> -1, log |-> pre \o <<t1, t2>>]
        ELSE IF t3.ack # OK THEN [rc |-> -1, log |-> pre \o <<t1, t2, t3>>]
        ELSE IF t4.ack # OK THEN [rc |-> -1, log |-> pre \o <<t1, t2, t3, t4>>]
        ELSE IF last.ack # OK \/ ~(pwr_ack_bits \subseteq last.data)
        THEN [rc |-> -1, log |-> pre \o <<t1, t2, t3, t4>> \o polls]
        ELSE IF t8.ack # OK \/ ~apidr_ok(t8.data)
        THEN [rc |-> -1, log |-> pre \o <<t1, t2, t3, t4>> \o polls \o <<t6, t7, t8>>]
        ELSE [rc |-> IF t9.ack # OK THEN -1 ELSE 0,
              log |-> pre \o <<t1, t2, t3, t4>> \o polls \o <<t6, t7, t8, t9>>]

\* an answer record of the target
Answer(stop, bad, polls, powered, pending, u1, u2, idr) ==
    [stop |-> stop, powered |-> powered, polls |-> polls, bad |-> bad,
     dpidr |-> DpidrVal, pending |-> pending, u1 |-> u1, u2 |-> u2,
     stale |-> {}, idr |-> idr]

\* the answers a target gives to a connect call
ConnectAnswers ==
    \* one of the first four checked transactions is refused
    {Answer(j, bad, 1, FALSE, {}, OK, OK, {}) : j \in 1..4, bad \in AckVals \ {OK}}
    \* a poll read is refused, in time or after the poll loop gave up
    \cup {Answer(5, bad, k, FALSE, pv, OK, OK, {}) :
              bad \in AckVals \ {OK}, k \in PollCounts \cup LatePolls, pv \in PendingVals}
    \* the target never shows both ACK bits, or shows them too late
    \cup {Answer(0, OK, 1, FALSE, pv, OK, OK, {}) : pv \in PendingVals}
    \cup {Answer(0, OK, PWRUP_ACK_TIMEOUT + 1, TRUE, pv, OK, OK, Word32(21623, 2)) :
              pv \in PendingVals}
    \* the target powers up; the AP probe is answered in every way
    \cup {Answer(j, bad, k, TRUE, {30, 28, 0}, u[1], u[2], idr) :
              j \in {0, 6, 7}, bad \in {WAIT, FAULT}, k \in PollCounts \cup {PWRUP_ACK_TIMEOUT},
              u \in ProbeAcks, idr \in IdrVals}

\* the answers met in a session of DMI accesses: the target connects at once,
\* or no target answers
SessionAnswers ==
    {Answer(0, OK, 1, TRUE, {30, 28, 0}, OK, OK, Word32(21623, 2)),
     Answer(1, DISCONNECTED, 1, FALSE, {}, OK, OK, {})}

\* swd_dmi_connect invalidating the TAR cache only when it succeeds
swd_dmi_connect_keep(r) ==
    LET run == connect_run(targetsel, apsel, r)
        tgt == target_after(tgt_select, tgt_tar, run.log)
    IN  /\ addr_cache_valid' = IF run.rc = 0 THEN FALSE ELSE addr_cache_valid
        /\ swd_log' = run.log
        /\ rc' = run.rc
        /\ tgt_select' = tgt[1]
        /\ tgt_tar' = tgt[2]
        /\ acc_hist' = <<>>
        /\ tar_writes' = 0
        /\ drw_writes' = 0
        /\ wr_calls' = 0
        /\ LET pins == line_after_log(run.log, FALSE, FALSE)
           IN  swclk' = pins[1] /\ swdo_en' = pins[2]
        /\ UNCHANGED <<addr_cache, targetsel, apsel, rd_out, dtm_vars, obs_vars>>

swd_dmi_connect(r) ==
    LET run == connect_run(targetsel, apsel, r)
        tgt == target_after(tgt_select, tgt_tar, run.log)
    IN  /\ addr_cache_valid' = FALSE
        /\ swd_log' = run.log
        /\ rc' = run.rc
        /\ tgt_select' = tgt[1]
        /\ tgt_tar' = tgt[2]
        /\ acc_hist' = <<>>
        /\ tar_writes' = 0
        /\ drw_writes' = 0
        /\ wr_calls' = 0
        /\ LET pins == line_after_log(run.log, FALSE, FALSE)
           IN  swclk' = pins[1] /\ swdo_en' = pins[2]
        /\ UNCHANGED <<addr_cache, targetsel, apsel, rd_out, dtm_vars, obs_vars>>

\* set_addr without its cache test: every access writes TAR
set_addr_always(valid, cache, addr, ack) == <<swd_write(AP, AP_REG_TAR, addr, ack)>>

\* set_addr: the transactions it emits, the target answering the TAR write with ack
set_addr(valid, cache, addr, ack) ==
    IF valid /\ cache = addr THEN <<>> ELSE <<swd_write(AP, AP_REG_TAR, addr, ack)>>

\* addr <<= 2 on a uint32_t
byte_addr(addr) == Shl(addr, 2, 32)

\* what every DMI access does to the bridge, the target and the observation
Access(kind, addr, log) ==
    LET tgt == target_after(tgt_select, tgt_tar, log) IN
    /\ addr_cache_valid' = TRUE
    /\ addr_cache' = IF Count(log, IsTarWrite) > 0 THEN byte_addr(addr) ELSE addr_cache
    /\ swd_log' = log
    /\ tgt_select' = tgt[1]
    /\ tgt_tar' = tgt[2]
    /\ acc_hist' = Append(acc_hist, addr)
    /\ tar_writes' = tar_writes + Count(log, IsTarWrite)
    /\ drw_writes' = drw_writes + Count(log, IsDrwWrite)
    /\ wr_calls' = IF kind = "write" THEN wr_calls + 1 ELSE wr_calls
    /\ LET pins == line_after_log(log, swclk, swdo_en)
       IN  swclk' = pins[1] /\ swdo_en' = pins[2]
    /\ UNCHANGED <<targetsel, apsel, rc, dtm_vars, obs_vars>>

swd_dmi_write(addr, data, ack_tar, ack_drw) ==
    /\ Access("write", addr,
              set_addr(addr_cache_valid, addr_cache, byte_addr(addr), ack_tar)
                  \o <<swd_write(AP, AP_REG_DRW, data, ack_drw)>>)
    /\ UNCHANGED rd_out

\* swd_dmi_read delivering what the posted DRW read returned
swd_dmi_read_posted(addr, ack_tar, ack_drw, stale, ack_rdbuf, data) ==
    /\ Access("read", addr,
              set_addr(addr_cache_valid, addr_cache, byte_addr(addr), ack_tar)
                  \o <<swd_read(AP, AP_REG_DRW, ack_drw, stale),
                       swd_read(DP, DP_REG_RDBUF, ack_rdbuf, data)>>)
    /\ rd_out' = stale

swd_dmi_read(addr, ack_tar, ack_drw, stale, ack_rdbuf, data) ==
    /\ Access("read", addr,
              set_addr(addr_cache_valid, addr_cache, byte_addr(addr), ack_tar)
                  \o <<swd_read(AP, AP_REG_DRW, ack_drw, stale),
                       swd_read(DP, DP_REG_RDBUF, ack_rdbuf, data)>>)
    /\ rd_out' = data

----------------------------------------------------------------------------
\* The JTAG host

\* no payload: the host scans zeros
NoWord == {}

\* the host picks the payload of a data-register scan as the scan begins
HostLoad(w) ==
    /\ tap_state = S_CAPTURE_DR
    /\ host_word = NoWord
    /\ host_word' = w
    /\ UNCHANGED <<dtm_vars, prev_state, ones, fresh, nshift, tdi_hist, cb_log, last_rd, swd_vars>>

\* the host wires the callbacks before it starts clocking
HostSetup == prev_state = NoState

\* shift edges the host drives: a bounded number per scan, and into a 32- or
\* 42-bit data register the bits of its payload in order
HostClockOk(b) ==
    (b /\ ~tck) =>
        /\ tap_state = S_SHIFT_IR => nshift < MaxIrShift
        /\ (tap_state = S_SHIFT_DR /\ dr_len(ir) = 1) => nshift < MaxBypassShift
        /\ (tap_state = S_SHIFT_DR /\ dr_len(ir) > 1) =>
              /\ nshift < MaxDrShift
              /\ tdi = (nshift \in host_word)

\* a host that scans in whole instructions of HostIrs, W_IR bits each
HostIrOk(b) ==
    (b /\ ~tck /\ tap_state = S_SHIFT_IR) =>
        /\ nshift < W_IR
        /\ tms = (nshift = W_IR - 1)
        /\ \E h \in HostIrs :
              /\ \A k \in 1..Len(tdi_hist) : tdi_hist[k] = ((k - 1) \in FromInt(h))
              /\ tdi = (nshift \in FromInt(h))

ObsInit ==
    /\ prev_state = NoState
    /\ ones = 0
    /\ fresh = FALSE
    /\ nshift = 0
    /\ tdi_hist = <<>>
    /\ cb_log = <<>>
    /\ last_rd = NoRead
    /\ host_word = NoWord

\* the bridge as created, the pins as the board's reset leaves them (inputs),
\* the target's registers as found, nothing observed
SwdInit(ts, ap) ==
    /\ swd_dmi_create(ts, ap)
    /\ swclk = FALSE
    /\ swdo_en = FALSE
    /\ tgt_select = {}
    /\ tgt_tar = {}
    /\ swd_log = <<>>
    /\ acc_hist = <<>>
    /\ tar_writes = 0
    /\ drw_writes = 0
    /\ wr_calls = 0
    /\ rc = 0
    /\ rd_out = {}

Init ==
    /\ \E idc \in Idcodes : jtag_vdtm_create(idc)
    /\ ObsInit
    /\ SwdInit({}, 0)

\* the TAP driven by a host that scans arbitrary bits into IR and into the
\* 1-bit data registers; no DMI callback is installed
Next ==
    \/ \E b \in BOOLEAN : jtag_vdtm_set_tms(b)
    \/ \E b \in BOOLEAN : jtag_vdtm_set_tdi(b)
    \/ \E b \in BOOLEAN, v \in RdataVals : HostClockOk(b) /\ jtag_vdtm_set_tck(b, v)
    \/ \E w \in HostWords : HostLoad(w)

Spec == Init /\ [][Next]_vars

\* the DTM wired to DMI callbacks, driven by a host that scans in whole
\* instructions and DMI payloads
NextDmi ==
    \/ \E b \in BOOLEAN : jtag_vdtm_set_tms(b)
    \/ \E b \in BOOLEAN : jtag_vdtm_set_tdi(b)
    \/ \E b \in BOOLEAN, v \in RdataVals :
          HostClockOk(b) /\ HostIrOk(b) /\ jtag_vdtm_set_tck(b, v)
    \/ \E cb \in BOOLEAN : HostSetup /\ jtag_vdtm_set_write_callback(cb)
    \/ \E cb \in BOOLEAN : HostSetup /\ jtag_vdtm_set_read_callback(cb)
    \/ \E w \in HostWords : HostLoad(w)

SpecDmi == Init /\ [][NextDmi]_vars

\* the bridge driven by a caller that connects and issues DMI accesses
InitSwd ==
    /\ \E idc \in Idcodes : jtag_vdtm_create(idc)
    /\ ObsInit
    /\ \E c \in BridgeConfigs : SwdInit(c[1], c[2])

NextSwd ==
    \/ \E r \in SessionAnswers : swd_dmi_connect(r)
    \/ \E addr \in DmiAddrs, data \in DataVals, a \in WriteAcks :
          /\ Len(acc_hist) < MaxAccesses
          /\ swd_dmi_write(addr, data, a[1], a[2])
    \/ \E addr \in DmiAddrs, data \in DataVals, a \in ReadAcks :
          /\ Len(acc_hist) < MaxAccesses
          /\ swd_dmi_read(addr, a[1], a[2], StaleVal, a[3], data)

SpecSwd == InitSwd /\ [][NextSwd]_vars

\* one primitive of the transaction layer on the line
LineCall(x) ==
    /\ swd_log' = <<x>>
    /\ LET pins == line_after(wire_of(x), swclk, swdo_en)
       IN  swclk' = pins[1] /\ swdo_en' = pins[2]
    /\ UNCHANGED <<addr_cache, addr_cache_valid, targetsel, apsel, tgt_select, tgt_tar,
                   acc_hist, tar_writes, drw_writes, wr_calls, rc, rd_out,
                   dtm_vars, obs_vars>>

\* the transaction layer called with every register selector, the target
\* answering every ACK
NextWire ==
    \/ \E ap \in {DP, AP}, addr \in 0..3, ack \in AckVals, data \in WireWords :
          LineCall(swd_read(ap, addr, ack, data))
    \/ \E ap \in {DP, AP}, addr \in 0..3, ack \in AckVals, data \in WireWords :
          LineCall(swd_write(ap, addr, data, ack))
    \/ \E id \in WireWords : LineCall(swd_targetsel(id))
    \/ LineCall(LinkTxn)

SpecWire == InitSwd /\ [][NextWire]_vars

\* the bridge connecting, again and again, to targets that answer in every way
InitConnect ==
    /\ \E idc \in Idcodes : jtag_vdtm_create(idc)
    /\ ObsInit
    /\ \E c \in ConnectConfigs : SwdInit(c[1], c[2])

NextConnect == \E r \in ConnectAnswers : swd_dmi_connect(r)

SpecConnect == InitConnect /\ [][NextConnect]_vars

----------------------------------------------------------------------------
\* Properties of the TAP and the DTM

\* the number whose bit k-1 is the k-th element of a sequence of bits
HistVal(h) == ToInt({k - 1 : k \in {j \in 1..Len(h) : h[j]}})

\* the TDI bit sampled by the last shift edge, or 0 before the first one
LastTdi == IF nshift = 0 \/ tdi_hist = <<>> THEN FALSE ELSE tdi_hist[Len(tdi_hist)]

\* C1: after five consecutive TCK rising edges with TMS=1, from whatever TAP
\* state and register contents, the TAP is in RESET, and it stays there while
\* further rising edges with TMS=1 follow.
C1_ResetAfterFiveOnes == ones = 5 => tap_state = S_RESET

\* C1 witness: RESET entered from SELECT-IR by exactly the fifth TMS=1 edge,
\* with IR still holding DMI from before the reset
C1_Witness ==
    ones = 5 /\ tap_state = S_RESET /\ prev_state = S_SELECT_IR /\ ir = IR_DMI

\* C2: after a TAP reset with no IR scan since, every TDO bit presented in
\* SHIFT-DR before shift edge number k (k = 0..31) is bit k of the idcode
\* given at construction.
C2_IdcodeAfterReset ==
    (fresh /\ tap_state = S_SHIFT_DR /\ ~tck /\ nshift < 32)
        => (tdo = (nshift \in idcode))

\* C2 witness: the last of the 32 bits is on TDO, all 31 earlier ones shifted out
C2_Witness ==
    fresh /\ tap_state = S_SHIFT_DR /\ ~tck /\ nshift = 31 /\ tdo /\ 31 \in idcode

\* C3: an IR scan with at least 5 shift edges followed by UPDATE-IR sets IR to
\* the last 5 TDI bits, earliest in bit 0; with IR = 0x11 the next CAPTURE-DR
\* loads the DMI register (read data above two zero status bits) and the
\* first shift edge puts TDI into bit 41.
C3_IrScan ==
    /\ (prev_state = S_UPDATE_IR /\ nshift >= 5) => ir = HistVal(tdi_hist)
    /\ (prev_state = S_CAPTURE_DR /\ ir = 17) => shifter = {i + 2 : i \in dmi_rdata}
    /\ (prev_state = S_SHIFT_DR /\ ir = 17 /\ nshift = 1)
          => /\ (41 \in shifter) = LastTdi
             /\ shifter \subseteq 0..41

\* C3 witness: 1,0,0,0,1 was shifted in and UPDATE-IR made IR = 0x11
C3_Witness ==
    /\ prev_state = S_UPDATE_IR
    /\ nshift = 5
    /\ tdi_hist = <<TRUE, FALSE, FALSE, FALSE, TRUE>>
    /\ ir = 17

\* C4: with IR=BYPASS the TDO bit presented in SHIFT-DR is 0 before the first
\* shift edge and afterwards the TDI bit of the previous shift edge, also when
\* the scan went through PAUSE-DR.
C4_BypassDelay ==
    (ir = IR_BYPASS /\ tap_state = S_SHIFT_DR /\ ~tck) => (tdo = LastTdi)

\* C4 witness: the scan resumed from PAUSE-DR and presents a 1 shifted in before
C4_Witness ==
    /\ ir = IR_BYPASS /\ tap_state = S_SHIFT_DR /\ ~tck
    /\ prev_state = S_EXIT2_DR /\ nshift = 2 /\ tdo

\* C5: with an IR value other than 0x00, 0x01, 0x10 and 0x11 a DR scan presents
\* on TDO a 0 and then the TDI bits delayed by one, exactly as BYPASS does.
C5_UnknownIrIsBypass ==
    (ir \notin {0, 1, 16, 17} /\ tap_state = S_SHIFT_DR /\ ~tck) => (tdo = LastTdi)

\* C6: in every reachable state whose TAP state is RESET, IR = IDCODE.
C6_IrInReset == tap_state = S_RESET => ir = 1

\* C6 as amended: after every rising edge processed in RESET, IR = IDCODE.
C6_IrAfterResetEdge == prev_state = S_RESET => ir = 1

\* C6 witness: an edge in RESET replaced the DMI instruction scanned in before
C6_Witness ==
    /\ prev_state = S_RESET /\ tap_state = S_RUN_IDLE
    /\ ir = 1 /\ shifter = FromInt(17)

\* C7: an UPDATE-DR edge with IR=DMI, op=2 in shifter[1:0] and a write callback
\* installed invokes the write callback once with (shifter[41:34],
\* shifter[33:2]) and no other callback.
C7_DmiWrite ==
    (prev_state = S_UPDATE_DR /\ ir = 17 /\ write_callback
        /\ 1 \in shifter /\ 0 \notin shifter)
    => cb_log = <<[cb |-> "write",
                   addr |-> ToInt({i - 34 : i \in shifter \cap (34..41)}),
                   data |-> {i - 2 : i \in shifter \cap (2..33)}]>>

\* C7 witness: shifter = (0x10 << 34) | (1 << 2) | 2 gave the call (0x10, 1)
C7_Witness ==
    /\ prev_state = S_UPDATE_DR /\ ir = 17
    /\ shifter = {38, 2, 1}
    /\ cb_log = <<[cb |-> "write", addr |-> 16, data |-> {0}]>>

\* C8: once the read callback returned V, every CAPTURE-DR with IR=DMI loads
\* V << 2 until the next read, so the scan presents zeros in bits [1:0], V in
\* bits [33:2] and zeros in bits [41:34]; the status bits of every DMI capture
\* are 0.
C8_DmiReadCapture ==
    /\ (prev_state = S_CAPTURE_DR /\ ir = 17)
          => /\ shifter \cap {0, 1} = {}
             /\ last_rd # NoRead => shifter = {i + 2 : i \in last_rd}
    /\ (ir = 17 /\ tap_state = S_SHIFT_DR /\ ~tck /\ nshift < 42 /\ last_rd # NoRead)
          => (tdo = ((nshift - 2) \in last_rd))

\* C8 witness: the capture after a read of 0x12345678, whose bit 28 is the
\* highest set
C8_Witness ==
    /\ prev_state = S_CAPTURE_DR /\ ir = 17
    /\ last_rd = Word32(4660, 22136)
    /\ 30 \in shifter /\ shifter \cap (31..63) = {}

----------------------------------------------------------------------------
\* Properties of the SWD-DMI bridge

\* accesses of history h that differ from their predecessor under the view f
\* of an address, the first one counted
Misses(h, f(_)) == Cardinality({k \in 1..Len(h) : k = 1 \/ f(h[k]) # f(h[k - 1])})

\* the address as passed by the caller
raw_addr(addr) == addr

\* the accesses write(0x4), write(0x4), write(0x5), write(0x4)
S6_Addrs == <<FromInt(4), FromInt(4), FromInt(5), FromInt(4)>>

\* C9: the TAR writes emitted since connect number the accesses whose address
\* differs from the address of the access before, the first counted as a miss.
C9_TarWritesPerAddress == tar_writes = Misses(acc_hist, raw_addr)

\* C9 as amended: the TAR writes emitted since connect number the accesses
\* whose byte address (address * 4, truncated to 32 bits) differs from the byte
\* address of the access before, the first counted as a miss, reads and writes
\* alike; every swd_dmi_write emits one DRW write; write(0x4), write(0x4),
\* write(0x5), write(0x4) emits 3 TAR writes and 4 DRW writes.
C9_TarWritesPerByteAddress ==
    /\ tar_writes = Misses(acc_hist, byte_addr)
    /\ drw_writes = wr_calls
    /\ (acc_hist = S6_Addrs /\ wr_calls = 4) => (tar_writes = 3 /\ drw_writes = 4)

\* C9 witness: the four writes were made and the second one hit the cache
C9_Witness ==
    /\ acc_hist = S6_Addrs /\ wr_calls = 4
    /\ tar_writes = 3 /\ drw_writes = 4
    /\ addr_cache_valid /\ addr_cache = FromInt(16)

\* C10: whenever the TAR cache is marked valid, the cached address is the
\* value the target's TAR register holds.
C10_CacheMatchesTarget == addr_cache_valid => addr_cache = tgt_tar

----------------------------------------------------------------------------
\* Properties of swd_dmi_connect

\* the transactions of a log that have an ACK phase
Acked(log) == {i \in 1..Len(log) : log[i].t \in {"R", "W"}}

\* the CTRL/STAT reads of a log
PollReads(log) ==
    {i \in 1..Len(log) : log[i].t = "R" /\ log[i].ap = DP /\ log[i].reg = DP_REG_CTRL_STAT}

\* the number of transactions the entries S of a log stand for
RECURSIVE Total(_, _)
Total(log, S) ==
    IF S = {} THEN 0
    ELSE LET i == CHOOSE j \in S : TRUE IN log[i].n + Total(log, S \ {i})

\* C11: a connect call returns non-zero whenever a transaction of its sequence
\* was answered with an ACK other than OK or the power-up poll timed out; it
\* never returns 0 after a WAIT, FAULT or missing response.
C11_ConnectFailsOnBadAck ==
    (\/ \E i \in Acked(swd_log) : swd_log[i].ack # OK
     \/ /\ PollReads(swd_log) # {}
        /\ \A i \in PollReads(swd_log) : ~(pwr_ack_bits \subseteq swd_log[i].data))
    => rc # 0

----------------------------------------------------------------------------
\* Properties of the SWD transaction layer

\* the transactions of the last call that begin with a header and an ACK phase
Headed == {i \in 1..Len(swd_log) : swd_log[i].t \in {"R", "W"}}

\* the levels driven in the first segment of a transaction, in wire order
HeaderBits(x) == wire_of(x)[1].bits

\* the number a sequence of levels spells, first level in bit 0
LevelsVal(b) == ToInt({k - 1 : k \in {j \in 1..Len(b) : b[j]}})

\* C12: for every (APnDP, RnW, addr) with addr in 0..3 the header byte has
\* bit0 = 1, bit1 = APnDP, bit2 = RnW, bit3 = addr bit 0, bit4 = addr bit 1,
\* bit5 = the XOR of those four, bit6 = 0 and bit7 = 1; it goes out LSB first.
C12_HeaderLayout ==
    \A i \in Headed :
        LET x == swd_log[i]
            h == FromInt(swd_header(x.ap, IF x.t = "R" THEN 1 ELSE 0, x.reg))
            a2 == x.reg % 2 = 1
            a3 == (x.reg \div 2) % 2 = 1
        IN  /\ 0 \in h
            /\ (1 \in h) = (x.ap = AP)
            /\ (2 \in h) = (x.t = "R")
            /\ (3 \in h) = a2
            /\ (4 \in h) = a3
            /\ (5 \in h) = (((x.ap = AP) # (x.t = "R")) # (a2 # a3))
            /\ 6 \notin h
            /\ 7 \in h
            /\ h \subseteq 0..7
            /\ wire_of(x)[1].op = "put"
            /\ HeaderBits(x) = [k \in 1..8 |-> (k - 1) \in h]

\* C12 witness: a DP write of register 3 went out as 0x99, parity bit 0
C12_Witness ==
    /\ swd_log # <<>>
    /\ swd_log[1].t = "W" /\ swd_log[1].ap = DP /\ swd_log[1].reg = 3
    /\ HeaderBits(swd_log[1]) = <<TRUE, FALSE, FALSE, TRUE, TRUE, FALSE, FALSE, TRUE>>
    /\ swdo_en

\* C13: the header built for (AP, read, addr = 0x2) is the byte 0xBF.
C13_HeaderApRead2IsBF ==
    \A i \in Headed :
        (swd_log[i].t = "R" /\ swd_log[i].ap = AP /\ swd_log[i].reg = 2)
            => swd_header(AP, 1, 2) = 191

\* C13 as amended: the header built for (AP, read, addr = 0x2) is the byte
\* 0xB7: Start=1, APnDP=1, RnW=1, A2=0, A3=1, parity=1, Stop=0, Park=1, bit 0
\* first.
C13_HeaderApRead2IsB7 ==
    \A i \in Headed :
        (swd_log[i].t = "R" /\ swd_log[i].ap = AP /\ swd_log[i].reg = 2)
            => /\ swd_header(AP, 1, 2) = 183
               /\ LevelsVal(HeaderBits(swd_log[i])) = 183
               /\ HeaderBits(swd_log[i]) =
                      <<TRUE, TRUE, TRUE, FALSE, TRUE, TRUE, FALSE, TRUE>>

\* C13 witness: an AP read of register 2 was on the line and left it released
C13_Witness ==
    /\ swd_log # <<>>
    /\ swd_log[1].t = "R" /\ swd_log[1].ap = AP /\ swd_log[1].reg = 2
    /\ LevelsVal(HeaderBits(swd_log[1])) = 183
    /\ ~swdo_en

----------------------------------------------------------------------------
\* Properties of the link stream

\* n cycles at one level
Ones(n) == [i \in 1..n |-> TRUE]
Zeros(n) == [i \in 1..n |-> FALSE]

\* the n low bits of the number v, bit 0 first
NumLevels(v, n) == [i \in 1..n |-> (v \div 2^(i - 1)) % 2 = 1]

\* the 128 bits of the dormant-to-SWD selection alert of IHI0031, bit 0 first:
\* 0x19BC0EA2_E3DDAFE9_86852D95_6209F392, a zero bit and 127 bits of LFSR output
SelectionAlert ==
    WordLevels(Word32(25097, 62354)) \o WordLevels(Word32(34437, 11669))
        \o WordLevels(Word32(58333, 45033)) \o WordLevels(Word32(6588, 3746))

\* the link stream with k and m ones in its line resets and z trailing zeros
LinkPattern(k, m, z) ==
    Ones(k) \o NumLevels(58300, 16) \o NumLevels(255, 8) \o SelectionAlert
        \o Zeros(4) \o NumLevels(26, 8) \o Zeros(4) \o Ones(m) \o Zeros(z)

\* the first segment of the traffic of the last connect call
FirstSeg == wire_of(swd_log[1])[1]

\* the traffic begins with the link stream, driven by the probe, in the
\* specified pattern
LinkStreamFirst ==
    /\ swd_log[1] = LinkTxn
    /\ wire_of(swd_log[1]) = <<FirstSeg>>
    /\ FirstSeg.op = "put"
    /\ Len(FirstSeg.bits) = FirstSeg.n
    /\ \E k \in 50..64, m \in 50..64, z \in 2..8 : FirstSeg.bits = LinkPattern(k, m, z)
    /\ SelectionAlert[1] = FALSE

\* C14: the first thing swd_dmi_connect drives on SWDIO is the link-down-up
\* stream, exactly 216 bits long, in the specified pattern: at least 50 ones,
\* 0xE3BC, 0xFF, a zero bit and the dormant-wake pattern filling 128 bits,
\* 4 zeros, the activation code 0x1A, 4 zeros, at least 50 ones and at least 2
\* trailing zeros, every byte LSB first.
C14_LinkStream216 ==
    swd_log # <<>> => LinkStreamFirst /\ FirstSeg.n = 216

\* C14 as amended: the same stream and pattern, exactly 276 bits long.
C14_LinkStream276 ==
    swd_log # <<>> => LinkStreamFirst /\ FirstSeg.n = 276

\* C14 witness: a connect call that went on to TARGETSEL drove 56 ones, the
\* fixed pattern, 50 ones and 2 zeros first
C14_Witness ==
    /\ Len(swd_log) > 1
    /\ swd_log[2].t = "TARGETSEL"
    /\ FirstSeg.bits = LinkPattern(56, 50, 2)
    /\ FirstSeg.n = link_down_up_bits

----------------------------------------------------------------------------
\* Properties of TDO and of DTMCS

\* C15: TDO changes only in a jtag_vdtm_set_tck call that sees a falling edge
\* of TCK; the value set there is bit 0 of the shifter if the TAP state the
\* preceding rising edge reached is SHIFT-DR or SHIFT-IR and 0 otherwise; it
\* is unchanged through set_tms, set_tdi and the next rising edge.
C15_TdoAtFallingEdge ==
    [][/\ (tdo' # tdo) => (tck /\ ~tck')
       /\ (tck /\ ~tck') =>
             /\ tap_state' = tap_state /\ shifter' = shifter
             /\ tdo' = IF tap_state \in {S_SHIFT_DR, S_SHIFT_IR}
                       THEN 0 \in shifter ELSE FALSE
       /\ (tms' # tms \/ tdi' # tdi \/ (~tck /\ tck')) => tdo' = tdo]_vars

\* C15 witness: TCK has risen in SHIFT-DR and moved a 0 into bit 0 of the
\* shifter, and TDO still shows the 1 set at the falling edge before
C15_Witness ==
    /\ tck /\ tdo
    /\ prev_state = S_SHIFT_DR /\ tap_state = S_SHIFT_DR
    /\ 0 \notin shifter
    /\ nshift >= 2

\* C16: every CAPTURE-DR with IR=DTMCS loads 0x00000081 (version 1 in bits
\* [3:0], abits 8 in bits [7:4], idle 0 in bits [14:12], all other bits 0); an
\* UPDATE-DR with IR=DTMCS, whatever was shifted in, changes no DTM state other
\* than the TAP state and invokes no callback.
C16_DtmcsReadOnly ==
    [][/\ (~tck /\ tck' /\ tap_state = S_CAPTURE_DR /\ ir = 16) =>
             /\ shifter' = {7, 0}
             /\ Trunc(shifter', 4) = FromInt(1)
             /\ Trunc(Shr(shifter', 4), 4) = FromInt(8)
             /\ Trunc(Shr(shifter', 12), 3) = {}
       /\ (~tck /\ tck' /\ tap_state = S_UPDATE_DR /\ ir = 16) =>
             /\ cb_log' = <<>>
             /\ UNCHANGED <<ir, shifter, idcode, dmi_rdata, write_callback,
                            read_callback, tms, tdi, tdo, last_rd>>]_vars

\* C16 witness: 32 bits that would be a DMI write were scanned into DTMCS with
\* both callbacks installed, and the UPDATE-DR edge called neither
C16_Witness ==
    /\ prev_state = S_UPDATE_DR /\ ir = 16
    /\ nshift = 32
    /\ shifter = {2, 1}
    /\ write_callback /\ read_callback
    /\ cb_log = <<>>

----------------------------------------------------------------------------
\* Properties of the SWD pins

\* the last transaction of the last call
LastTxn == swd_log[Len(swd_log)]

\* C17: whenever no SWD primitive is in progress, in particular after
\* swd_read, swd_write, swd_targetsel, swd_dmi_connect, swd_dmi_read or
\* swd_dmi_write returns, SWCLK is low and the SWDIO driver is disabled.
C17_IdleReleased ==
    swd_log # <<>> => ~swclk /\ ~swdo_en

\* C17 as amended: after each of these calls SWCLK is low; the SWDIO driver is
\* disabled after swd_read and after a call whose last transaction is a read,
\* and it is left enabled after swd_write, swd_targetsel, the link stream and
\* after a call whose last transaction is a write.
C17_IdleClockLow ==
    swd_log # <<>> =>
        /\ ~swclk
        /\ swdo_en = (LastTxn.t # "R")
        /\ \A k \in 1..Len(swd_log) :
              /\ line_after(wire_of(swd_log[k]), TRUE, FALSE)
                     = <<FALSE, swd_log[k].t # "R">>
              /\ line_after(wire_of(swd_log[k]), TRUE, TRUE)
                     = <<FALSE, swd_log[k].t # "R">>

\* C17 witness: swd_dmi_write returned after an acknowledged DRW write and the
\* probe still drives SWDIO
C17_Witness ==
    /\ wr_calls > 0
    /\ swd_log # <<>>
    /\ IsDrwWrite(LastTxn) /\ LastTxn.ack = OK
    /\ ~swclk /\ swdo_en

----------------------------------------------------------------------------
\* Properties of the connect sequence

\* transaction x is a read, or a write of data, of register reg of the DP or AP
IsRead(x, ap_ndp, reg) == x.t = "R" /\ x.n = 1 /\ x.ap = ap_ndp /\ x.reg = reg
IsWrite(x, ap_ndp, reg, data) ==
    x.t = "W" /\ x.n = 1 /\ x.ap = ap_ndp /\ x.reg = reg /\ x.data = data

\* apsel << 24 in 32 bits, from the bits of apsel
ApselBits == {i + 24 : i \in FromInt(apsel)} \cap (0..31)

\* transaction x is TARGETSEL(id) as it goes over the line: the header of a DP
\* write of register 3, five cycles released, 32 data bits and the parity
\* bit, no ACK sampled
IsTargetsel(x, id) ==
    /\ x.t = "TARGETSEL" /\ x.n = 1 /\ x.data = id
    /\ LET w == wire_of(x)
       IN  /\ Len(w) = 4
           /\ w[1].op = "put" /\ w[1].n = 8 /\ LevelsVal(w[1].bits) = 153
           /\ w[2].op = "hiz" /\ w[2].n = 5
           /\ w[3].op = "put" /\ w[3].n = 32 /\ w[3].bits = WordLevels(id)
           /\ w[4].op = "put" /\ w[4].n = 1
           /\ w[4].bits = <<Cardinality(id) % 2 = 1>>
           /\ \A k \in 1..Len(w) : w[k].op # "get"

\* C18: a connect call that returns 0 has emitted exactly: the link stream;
\* TARGETSEL(targetsel) if and only if targetsel # 0; read DPIDR; write
\* ABORT = 0x1E; write SELECT = 0; write CTRL/STAT = CSYSPWRUPREQ |
\* CDBGPWRUPREQ | ORUNDETECT; one or more CTRL/STAT reads; write SELECT =
\* 0xF0 | (apsel << 24); read AP register 3; read RDBUF; write SELECT =
\* apsel << 24.
C18_ConnectSequence ==
    (rc = 0 /\ swd_log # <<>>) =>
        LET o == IF targetsel # {} THEN 1 ELSE 0
            L == swd_log
            e == Len(swd_log)
        IN  /\ e >= o + 10
            /\ L[1] = LinkTxn
            /\ wire_of(L[1]) = <<put_bits(link_down_up, 276)>>
            /\ targetsel # {} => IsTargetsel(L[2], targetsel)
            /\ \A k \in 1..e : (L[k].t = "TARGETSEL") => (k = 2 /\ targetsel # {})
            /\ \A k \in 2..e : L[k].t # "LINK"
            /\ IsRead(L[o + 2], DP, 0)
            /\ IsWrite(L[o + 3], DP, 0, {4, 3, 2, 1})
            /\ IsWrite(L[o + 4], DP, 2, {})
            /\ IsWrite(L[o + 5], DP, 1, {30, 28, 0})
            /\ \A k \in (o + 6)..(e - 4) :
                  L[k].t = "R" /\ L[k].ap = DP /\ L[k].reg = 1 /\ L[k].n >= 1
            /\ IsWrite(L[e - 3], DP, 2, {7, 6, 5, 4} \cup ApselBits)
            /\ IsRead(L[e - 2], AP, 3)
            /\ IsRead(L[e - 1], DP, 3)
            /\ IsWrite(L[e], DP, 2, ApselBits)

\* C18 witness: a connect with targetsel 0x01002927 and apsel 1 returned 0
\* after the last CTRL/STAT read the poll allows
C18_Witness ==
    /\ rc = 0
    /\ Len(swd_log) = 12
    /\ targetsel = Word32(256, 10535)
    /\ IsTargetsel(swd_log[2], targetsel)
    /\ Total(swd_log, PollReads(swd_log)) = PWRUP_ACK_TIMEOUT
    /\ swd_log[12].data = {24}

\* the CTRL/STAT read i of the log shows CSYSPWRUPACK and CDBGPWRUPACK
ShowsPower(i) == {31, 29} \subseteq swd_log[i].data

\* C19: the power-up poll issues at most PWRUP_ACK_TIMEOUT CTRL/STAT reads and
\* stops at the first read that shows both CSYSPWRUPACK (bit 31) and
\* CDBGPWRUPACK (bit 29); if none of PWRUP_ACK_TIMEOUT reads shows both, the
\* call returns non-zero without an AP probe or a further SELECT write.
C19_PollBounded ==
    LET P == PollReads(swd_log) IN
    /\ Total(swd_log, P) <= 10000
    /\ \A i \in P : ShowsPower(i) => (swd_log[i].n = 1 /\ \A j \in P : j <= i)
    /\ \A i \in P : swd_log[i].ack # OK => (i = Len(swd_log) /\ swd_log[i].n = 1)
    /\ (P # {} /\ \A i \in P : ~ShowsPower(i)) =>
          /\ rc # 0
          /\ \A i \in P : \A k \in (i + 1)..Len(swd_log) : k \in P
    /\ (rc = 0 /\ swd_log # <<>>) => \E i \in P : ShowsPower(i)

\* C19 witness: 10000 CTRL/STAT reads were acknowledged, none showed both
\* bits, and the call returned non-zero with the last of them
C19_Witness ==
    /\ rc # 0
    /\ swd_log # <<>>
    /\ Total(swd_log, PollReads(swd_log)) = PWRUP_ACK_TIMEOUT
    /\ Len(swd_log) \in PollReads(swd_log)
    /\ \A i \in PollReads(swd_log) : swd_log[i].ack = OK /\ ~ShowsPower(i)

\* the entries of the log that are reads of RDBUF
RdbufReads == {i \in 1..Len(swd_log) : swd_log[i].t = "R" /\ swd_log[i].ap = DP
                                           /\ swd_log[i].reg = 3}

\* value & 0x1E00F = 0x10002, on the bits of value
IdrMatches(value) == value \cap {16, 15, 14, 13, 3, 2, 1, 0} = {16, 1}

\* C20: swd_dmi_connect returns 0 only if the value of the RDBUF read that
\* follows the AP IDR read satisfies (value & 0x1E00F) = 0x10002; on any other
\* value it returns non-zero and does not issue the final SELECT write.
C20_IdrChecked ==
    /\ (rc = 0 /\ swd_log # <<>>) =>
          /\ RdbufReads = {Len(swd_log) - 1}
          /\ swd_log[Len(swd_log) - 2].ap = AP /\ swd_log[Len(swd_log) - 2].reg = 3
          /\ IdrMatches(swd_log[Len(swd_log) - 1].data)
    /\ \A i \in RdbufReads :
          ~IdrMatches(swd_log[i].data) => (rc # 0 /\ i = Len(swd_log))

\* C20 witness: the AP answered with the IDR 0x04770031 of an AHB Mem-AP, in
\* an acknowledged RDBUF read, and the call returned non-zero right there
C20_Witness ==
    /\ rc # 0
    /\ RdbufReads = {Len(swd_log)}
    /\ swd_log[Len(swd_log)].ack = OK
    /\ swd_log[Len(swd_log)].data = Word32(1143, 49)
    /\ swd_log[Len(swd_log) - 2].data \cap {7, 6, 5, 4} = {7, 6, 5, 4}

----------------------------------------------------------------------------
\* Properties of the SWD transactions and of the DMI accesses

\* segment g is n cycles of kind op
IsSeg(g, op, n) == g.op = op /\ g.n = n

\* the XOR of the 32 levels of a data word
XorOfLevels(b) == Cardinality({k \in 1..32 : b[k]}) % 2 = 1

\* C21: swd_read clocks 8 driven header bits, 1 turnaround, 3 sampled ACK
\* bits, 32 sampled data bits, 1 sampled parity bit and 1 turnaround;
\* swd_write clocks 8 driven header bits, 1 turnaround, 3 sampled ACK bits, 1
\* turnaround, 32 driven data bits and 1 driven parity bit, the XOR of the
\* data bits; both take 46 SWCLK cycles and return the sampled ACK whatever
\* its value, without skipping the data phase and without a retry.
C21_TransactionShape ==
    /\ Len(swd_log) <= 1
    /\ \A i \in Headed :
          LET x == swd_log[i]
              w == wire_of(x)
          IN  /\ Len(w) = 6
              /\ IsSeg(w[1], "put", 8) /\ IsSeg(w[2], "hiz", 1) /\ IsSeg(w[3], "get", 3)
              /\ x.t = "R" =>
                    /\ IsSeg(w[4], "get", 32) /\ IsSeg(w[5], "get", 1)
                    /\ IsSeg(w[6], "hiz", 1)
                    /\ Len(w[4].bits) = 32 /\ Len(w[5].bits) = 1
              /\ x.t = "W" =>
                    /\ IsSeg(w[4], "hiz", 1) /\ IsSeg(w[5], "put", 32)
                    /\ IsSeg(w[6], "put", 1)
                    /\ w[5].bits = [k \in 1..32 |-> (k - 1) \in x.data]
                    /\ w[6].bits = <<XorOfLevels(w[5].bits)>>
              /\ w[1].n + w[2].n + w[3].n + w[4].n + w[5].n + w[6].n = 46
              /\ Len(w[3].bits) = 3
              /\ swd_status(w[3].bits) = x.ack
              /\ swd_status(w[3].bits) = LevelsVal(w[3].bits)

\* C21 witness: a write of 0x12345678 answered WAIT drove its data and the
\* parity bit 1 all the same, and returned WAIT
C21_Witness ==
    /\ Len(swd_log) = 1
    /\ swd_log[1].t = "W" /\ swd_log[1].ack = WAIT
    /\ swd_status(wire_of(swd_log[1])[3].bits) = 2
    /\ wire_of(swd_log[1])[5].bits = WordLevels(Word32(4660, 22136))
    /\ wire_of(swd_log[1])[6].bits = <<TRUE>>

\* this step is a DMI access: one more address in the history
IsAccess == Len(acc_hist') = Len(acc_hist) + 1

\* C22: swd_dmi_write(addr, data) emits an AP TAR write of addr * 4 mod 2^32
\* only on a cache miss, then exactly one AP DRW write; swd_dmi_read(addr)
\* emits the TAR write only on a miss, then one AP DRW read and one DP RDBUF
\* read, and delivers the data of the RDBUF read, not of the DRW read.
C22_AccessTraffic ==
    [][IsAccess =>
          LET addr == acc_hist'[Len(acc_hist')]
              ba == {i + 2 : i \in addr} \cap (0..31)
              miss == ~addr_cache_valid \/ addr_cache # ba
              o == IF miss THEN 1 ELSE 0
              L == swd_log'
          IN  /\ miss => IsWrite(L[1], AP, 1, ba)
              /\ (wr_calls' # wr_calls) =>
                    /\ Len(L) = o + 1
                    /\ L[o + 1].t = "W" /\ L[o + 1].ap = AP /\ L[o + 1].reg = 3
                    /\ L[o + 1].n = 1 /\ L[o + 1].data \in DataVals
                    /\ rd_out' = rd_out
              /\ (wr_calls' = wr_calls) =>
                    /\ Len(L) = o + 2
                    /\ IsRead(L[o + 1], AP, 3)
                    /\ IsRead(L[o + 2], DP, 3)
                    /\ rd_out' = L[o + 2].data]_vars

\* C22 witness: a read that hit the cache emitted the DRW read, which
\* returned 0xFFFFFFFF, and the RDBUF read, and delivered the word of the latter
C22_Witness ==
    /\ Len(acc_hist) >= 2
    /\ Len(swd_log) = 2
    /\ IsRead(swd_log[1], AP, 3) /\ swd_log[1].data = 0..31
    /\ IsRead(swd_log[2], DP, 3) /\ swd_log[2].data = Word32(64, 1154)
    /\ rd_out = Word32(64, 1154)

\* this step is a connect call: its traffic begins with the link stream
IsConnect == swd_log' # <<>> /\ swd_log'[1].t = "LINK"

\* C23: every swd_dmi_connect call, whether it succeeds or fails, marks the
\* TAR cache invalid, and nothing else clears validity: once a DMI read or
\* write has made the cache valid it stays valid until the next connect call,
\* whatever ACKs are received.
C23_InvalidateOnConnectOnly ==
    [][/\ IsConnect => ~addr_cache_valid'
       /\ IsAccess => addr_cache_valid'
       /\ (addr_cache_valid /\ ~addr_cache_valid') => (IsConnect /\ ~IsAccess)]_vars

\* C23 witness: a connect call that no target answered left the cache
\* invalid, the address of an earlier access still in it
C23_Witness ==
    /\ rc # 0
    /\ swd_log # <<>>
    /\ swd_log[Len(swd_log)].ack = DISCONNECTED
    /\ swd_log[1].t = "LINK"
    /\ ~addr_cache_valid
    /\ addr_cache = {4}

----------------------------------------------------------------------------
\* Properties of the setters, of IR and of the callbacks

\* this step is a rising edge of the stored TCK level
Rising == ~tck /\ tck'

\* C24: jtag_vdtm_set_tck steps the TAP, effects and transition, once per
\* 0-to-1 change of its argument against the stored TCK level and never
\* otherwise; a falling edge changes only TDO and the stored TCK level;
\* set_tms and set_tdi change only the stored TMS and TDI.
C24_EdgeSensitive ==
    [][/\ Rising =>
             /\ tap_state' = step_tap_fsm(tap_state, tms)
             /\ ir' = next_ir(tap_state, ir, shifter)
             /\ shifter' = next_shifter(tap_state, ir, shifter, idcode, dmi_rdata, tdi)
             /\ prev_state' = tap_state
             /\ UNCHANGED <<tms, tdi, tdo, idcode, write_callback, read_callback>>
       /\ ~Rising =>
             UNCHANGED <<tap_state, ir, shifter, dmi_rdata, idcode, prev_state, cb_log,
                         write_callback, read_callback>>
       /\ (tck /\ ~tck') => UNCHANGED <<tms, tdi>>
       /\ (tms' # tms) => UNCHANGED <<tck, tdi, tdo>>
       /\ (tdi' # tdi) => UNCHANGED <<tck, tms, tdo>>]_<<dtm_vars, prev_state, cb_log>>

\* C24 witness: TCK fell in PAUSE-DR, then TMS and TDI were set to 1, and the
\* TAP is in PAUSE-DR still
C24_Witness ==
    /\ ~tck /\ tms /\ tdi
    /\ prev_state = S_EXIT1_DR /\ tap_state = S_PAUSE_DR
    /\ nshift >= 1

\* C25: IR is in 0..31 in every reachable state: UPDATE-IR assigns the
\* shifter to the 8-bit IR unmasked, but every UPDATE-IR follows a CAPTURE-IR
\* that reloaded the shifter from IR, so the value assigned is shifter & 0x1F;
\* an IR scan with no shift cycles leaves IR unchanged.
C25_IrFiveBits ==
    /\ [](ir \in 0..31)
    /\ [][(Rising /\ tap_state = S_UPDATE_IR) =>
             /\ shifter \subseteq 0..4
             /\ ir' = ToInt(shifter \cap (0..4))
             /\ nshift = 0 => ir' = ir]_vars
    /\ [](tap_state \in {S_SHIFT_IR, S_EXIT1_IR, S_PAUSE_IR, S_EXIT2_IR, S_UPDATE_IR}
             => shifter \subseteq 0..4)

\* C25 witness: an IR scan without a shift cycle went through UPDATE-IR and
\* IR is DTMCS as before
C25_Witness ==
    /\ prev_state = S_UPDATE_IR
    /\ nshift = 0
    /\ ir = 16
    /\ shifter = {4}

\* shifter[1:0] as a number
OpBits == ToInt(shifter \cap {0, 1})

\* C26: a DMI callback is invoked only in a TCK rising edge processed in
\* UPDATE-DR with IR=DMI, the write callback only when shifter[1:0] = 2 and the
\* read callback only when shifter[1:0] = 1; op 0 and 3, every other IR, a
\* missing callback and a DMI scan with no shift cycle (its captured op is 0)
\* invoke no callback and leave the read-data latch unchanged; only the read
\* callback changes that latch.
C26_CallbacksOnlyOnDmiUpdate ==
    [][/\ ~Rising => (cb_log' = cb_log /\ dmi_rdata' = dmi_rdata)
       /\ (Rising /\ cb_log' # <<>>) =>
             /\ tap_state = S_UPDATE_DR /\ ir = 17
             /\ Len(cb_log') = 1
             /\ cb_log'[1].cb \in {"write", "read"}
             /\ cb_log'[1].cb = "write" => (OpBits = 2 /\ write_callback)
             /\ cb_log'[1].cb = "read" => (OpBits = 1 /\ read_callback)
       /\ (Rising /\ (\/ tap_state # S_UPDATE_DR
                      \/ ir # 17
                      \/ OpBits \in {0, 3}
                      \/ OpBits = 2 /\ ~write_callback
                      \/ OpBits = 1 /\ ~read_callback)) =>
             (cb_log' = <<>> /\ dmi_rdata' = dmi_rdata)
       /\ (Rising /\ tap_state = S_UPDATE_DR /\ ir = 17 /\ nshift = 0) =>
             (OpBits = 0 /\ cb_log' = <<>> /\ dmi_rdata' = dmi_rdata)
       /\ (dmi_rdata' # dmi_rdata) =>
             /\ cb_log' # <<>>
             /\ cb_log'[1].cb = "read"
             /\ dmi_rdata' = cb_log'[1].data]_vars

\* C26 witness: with both callbacks installed and 0xC0000003 in the latch, a
\* DMI scan without a shift cycle went through UPDATE-DR and called nothing
C26_Witness ==
    /\ prev_state = S_UPDATE_DR /\ ir = 17
    /\ nshift = 0
    /\ write_callback /\ read_callback
    /\ dmi_rdata = Word32(49152, 3)
    /\ shifter = {33, 32, 3, 2}
    /\ cb_log = <<>>

====
